---- MODULE Spec2Model ----
(***************************************************************************)
(* Model of app.py: two workloads (count_primes, simulate_io), the timing  *)
(* harness measure_time, and the three runners (sequential loop, thread    *)
(* pool, process pool) of demo_cpu_bound / demo_io_bound.                  *)
(*                                                                         *)
(* One behaviour is one call  measure_time(runner)  for one runner of one  *)
(* demo.  The main thread's position is pc; the pool's work items are the  *)
(* futures; workers are counted in alive.                                  *)
(*                                                                         *)
(* Time.  now is logical time: it advances only while some execution unit  *)
(* is blocked in time.sleep and nothing else can run; every other step     *)
(* costs zero logical time.  time.time() reads the wall clock, which is    *)
(* now + skew: the operating system may step the wall clock (skew) at any  *)
(* moment, forwards or backwards.                                          *)
(***************************************************************************)
EXTENDS Integers, Sequences, FiniteSets, TLC

VARIABLES
    strategy,      \* which runner: "sequential", "threads", "processes"
    workload,      \* which demo: "cpu" (count_primes) or "io" (simulate_io)
    arg,           \* N of demo_cpu_bound, delay of demo_io_bound
    times_to_run,  \* repetition count
    pc,            \* position of the main thread
    futures,       \* the list built by the submit comprehension
    results,       \* the list built by the collecting comprehension
    exc,           \* exception in flight in the main thread ("" = none)
    alive,         \* workers of the pool that exist and have not exited
    shutdown,      \* the executor's shutdown flag
    idle,          \* the executor's idle-worker semaphore
    mainWake,      \* logical time at which the main thread's sleep ends
    now,           \* logical time
    skew,          \* wall clock minus logical time
    start,         \* measure_time's start timestamp
    began,         \* logical time at which measure_time read start
    mt,            \* what measure_time gives its caller
    outstanding,   \* futures not yet finished when result() raised
    outOfOrder     \* some task finished before an earlier-submitted one

vars == << strategy, workload, arg, times_to_run, pc, futures, results, exc,
           alive, shutdown, idle, mainWake, now, skew, start, began, mt,
           outstanding, outOfOrder >>

\* ------------------------------------------------------------------ bounds
MaxN == 10
MaxDelay == 2
MaxK == 5
MaxSkew == 1

\* max_workers=4 of both executors
MaxWorkers == 4

Strategies == {"sequential", "threads", "processes"}
Pools == {"threads", "processes"}

\* ---------------------------------------------------------------- workloads
\* int(math.sqrt(num)): the floor of the square root (exact for these sizes)
ISqrt(num) == CHOOSE r \in 0..num : r * r <= num /\ (r + 1) * (r + 1) > num

\* range(2, int(math.sqrt(num)) + 1)
TrialRangeShort(num) == 2..(ISqrt(num) - 1)
TrialRange(num) == 2..ISqrt(num)

\* all(num % i != 0 for i in range(2, int(math.sqrt(num)) + 1))
NoDivisor(num) == \A i \in TrialRange(num) : num % i /= 0

\* the loop  for num in range(2, n)  with its counter
RECURSIVE CountLoop(_, _, _)
CountLoop(num, n, count) ==
    IF num >= n THEN count
    ELSE CountLoop(num + 1, n, IF NoDivisor(num) THEN count + 1 ELSE count)

count_primes(n) == CountLoop(2, n, 0)

\* simulate_io: time.sleep raises ValueError on a negative duration, else the
\* caller is blocked for duration and gets duration back
simulate_io(duration) ==
    IF duration < 0
    THEN [exc |-> "ValueError", value |-> 0, sleep |-> 0]
    ELSE [exc |-> "", value |-> duration, sleep |-> duration]

\* one invocation of the demo's workload with the demo's argument
Call(w, a) ==
    IF w = "cpu"
    THEN [exc |-> "", value |-> count_primes(a), sleep |-> 0]
    ELSE simulate_io(a)

\* ------------------------------------------------------------ timing harness
\* time.time()
WallClock == now + skew

\* measure_time: result = func(...) lets an exception of func pass; otherwise
\* return result, end - start
measure_time_swallow(e, result, s, end) ==
    [kind |-> "return", exc |-> "", result |-> result, elapsed |-> end - s]
measure_time(e, result, s, end) ==
    IF e /= ""
    THEN [kind |-> "raise", exc |-> e, result |-> << >>, elapsed |-> 0]
    ELSE [kind |-> "return", exc |-> "", result |-> result, elapsed |-> end - s]

\* -------------------------------------------------------------------- state
Init ==
    /\ strategy \in Strategies
    /\ workload \in {"cpu", "io"}
    /\ arg \in IF workload = "cpu" THEN 0..MaxN ELSE -1..MaxDelay
    /\ times_to_run \in 1..MaxK
    /\ pc = "mt_start"
    /\ futures = << >>
    /\ results = << >>
    /\ exc = ""
    /\ alive = 0
    /\ shutdown = FALSE
    /\ idle = 0
    /\ mainWake = 0
    /\ now = 0
    /\ skew = 0
    /\ start = 0
    /\ began = 0
    /\ mt = [kind |-> "none", exc |-> "", result |-> << >>, elapsed |-> 0]
    /\ outstanding = 0
    /\ outOfOrder = FALSE

Submitted == 1..Len(futures)
InState(s) == {i \in Submitted : futures[i].state = s}
Unfinished == {i \in Submitted : futures[i].state /= "FINISHED"}
\* workers that hold a work item
Busy == Cardinality(InState("RUNNING"))

\* range(times_to_run) of the comprehensions
NumTasksShort == times_to_run - 1
NumTasks == times_to_run

\* ------------------------------------------------------------- measure_time
\* line 30: start = time.time(); line 31 then calls the runner
MtStart ==
    /\ pc = "mt_start"
    /\ start' = WallClock
    /\ began' = now
    /\ pc' = IF strategy = "sequential" THEN "seq" ELSE "submit"
    /\ UNCHANGED << strategy, workload, arg, times_to_run, futures, results,
                    exc, alive, shutdown, idle, mainWake, now, skew, mt,
                    outstanding, outOfOrder >>

\* lines 31-33 once the runner has left: the exception passes through, or
\* end = time.time() and the pair is returned
MtFinish ==
    /\ pc \in {"returned", "raised"}
    /\ mt' = measure_time(exc, results, start, WallClock)
    /\ pc' = IF mt'.kind = "raise" THEN "failed" ELSE "done"
    /\ UNCHANGED << strategy, workload, arg, times_to_run, futures, results,
                    exc, alive, shutdown, idle, mainWake, now, skew, start, began,
                    outstanding, outOfOrder >>

\* -------------------------------------------------------- sequential runner
\* [workload(arg) for _ in range(times_to_run)]: the next call begins; an
\* exception of the call leaves the comprehension and the runner at once
SeqCall ==
    /\ pc = "seq"
    /\ Len(results) < NumTasks
    /\ LET c == Call(workload, arg) IN
         IF c.exc /= ""
         THEN /\ exc' = c.exc
              /\ pc' = "raised"
              /\ UNCHANGED mainWake
         ELSE /\ pc' = "seq_call"
              /\ mainWake' = now + c.sleep
              /\ UNCHANGED exc
    /\ UNCHANGED << strategy, workload, arg, times_to_run, futures, results,
                    alive, shutdown, idle, now, skew, start, began, mt,
                    outstanding, outOfOrder >>

\* the call returns (after its sleep, if any) and its value is appended
SeqCallReturn ==
    /\ pc = "seq_call"
    /\ now >= mainWake
    /\ results' = Append(results, [task |-> Len(results) + 1,
                                   value |-> Call(workload, arg).value])
    /\ pc' = "seq"
    /\ UNCHANGED << strategy, workload, arg, times_to_run, futures, exc,
                    alive, shutdown, idle, mainWake, now, skew, start, began, mt,
                    outstanding, outOfOrder >>

\* the comprehension is exhausted: return the list
SeqReturn ==
    /\ pc = "seq"
    /\ Len(results) >= NumTasks
    /\ pc' = "returned"
    /\ UNCHANGED << strategy, workload, arg, times_to_run, futures, results,
                    exc, alive, shutdown, idle, mainWake, now, skew, start, began,
                    mt, outstanding, outOfOrder >>

\* ------------------------------------------------------------- pool runners
\* executor.submit(workload, arg): a new PENDING future is queued; the
\* executor takes a permit of its idle-worker semaphore (a worker that has
\* finished a work item gives one), and when there is none adds a worker
\* unless max_workers exist
Submit ==
    /\ pc = "submit"
    /\ Len(futures) < NumTasks
    /\ futures' = Append(futures, [state |-> "PENDING", wake |-> 0,
                                   value |-> 0, exc |-> "",
                                   task |-> Len(futures) + 1])
    /\ IF idle > 0
       THEN idle' = idle - 1 /\ UNCHANGED alive
       ELSE /\ alive' = IF alive < MaxWorkers THEN alive + 1 ELSE alive
            /\ UNCHANGED idle
    /\ UNCHANGED << strategy, workload, arg, times_to_run, pc, results, exc,
                    shutdown, mainWake, now, skew, start, began, mt,
                    outstanding, outOfOrder >>

\* the submit comprehension is exhausted
SubmitDone ==
    /\ pc = "submit"
    /\ Len(futures) >= NumTasks
    /\ pc' = "collect"
    /\ UNCHANGED << strategy, workload, arg, times_to_run, futures, results,
                    exc, alive, shutdown, idle, mainWake, now, skew, start, began,
                    mt, outstanding, outOfOrder >>

\* for f in futures: the future whose result() is called next
FutureCompleted(collected) ==
    LET done == {i \in InState("FINISHED") :
                   \A r \in 1..Len(collected) : collected[r].task /= i}
    IN IF done = {} THEN Len(collected) + 1
       ELSE CHOOSE i \in done : \A j \in done : j <= i
FutureToCollect(collected) == Len(collected) + 1

\* f.result() of a finished future: its exception is raised, else its value
\* is returned
FutureResultSwallow(f) == [exc |-> "", value |-> f.value, task |-> f.task]
FutureResult(f) == [exc |-> f.exc, value |-> f.value, task |-> f.task]

\* control leaves the body of the with statement, normally (e = "") or by an
\* exception: either way it goes to the executor's __exit__
OnBodyExitNormalOnly(e) == IF e = "" THEN "exit" ELSE "raised"
OnBodyExit(e) == "exit"

\* f.result(): blocks until the future is finished
Collect ==
    /\ pc = "collect"
    /\ Len(results) < Len(futures)
    /\ LET j == FutureToCollect(results) IN
         /\ j \in Submitted
         /\ futures[j].state = "FINISHED"
         /\ LET r == FutureResult(futures[j]) IN
              IF r.exc /= ""
              THEN /\ exc' = r.exc
                   /\ outstanding' = Cardinality(Unfinished)
                   /\ pc' = OnBodyExit(r.exc)
                   /\ UNCHANGED results
              ELSE /\ results' = Append(results, [task |-> r.task,
                                                  value |-> r.value])
                   /\ UNCHANGED << exc, outstanding, pc >>
    /\ UNCHANGED << strategy, workload, arg, times_to_run, futures, alive,
                    shutdown, idle, mainWake, now, skew, start, began, mt,
                    outOfOrder >>

\* the collecting comprehension is exhausted: return leaves the with body
CollectDone ==
    /\ pc = "collect"
    /\ Len(results) >= Len(futures)
    /\ pc' = OnBodyExit("")
    /\ UNCHANGED << strategy, workload, arg, times_to_run, futures, results,
                    exc, alive, shutdown, idle, mainWake, now, skew, start, began,
                    mt, outstanding, outOfOrder >>

\* __exit__ calls shutdown(wait=True): the shutdown flag is set
Exit ==
    /\ pc = "exit"
    /\ shutdown' = TRUE
    /\ pc' = "join"
    /\ UNCHANGED << idle, strategy, workload, arg, times_to_run, futures, results,
                    exc, alive, mainWake, now, skew, start, began, mt,
                    outstanding, outOfOrder >>

\* shutdown(wait=True) returns when every work item is done and every worker
\* has been joined
JoinNoWait == TRUE
JoinReady == alive = 0 /\ Unfinished = {}

\* __exit__ returns: the runner returns its list, or the exception goes on
Join ==
    /\ pc = "join"
    /\ JoinReady
    /\ pc' = IF exc = "" THEN "returned" ELSE "raised"
    /\ UNCHANGED << strategy, workload, arg, times_to_run, futures, results,
                    exc, alive, shutdown, idle, mainWake, now, skew, start, began,
                    mt, outstanding, outOfOrder >>

\* ------------------------------------------------------------------ workers
\* a worker can take a work item when one of the live workers is idle
CanRunSerialized == alive > 0 /\ Busy = 0
CanRun == Busy < alive

\* an idle worker takes the oldest queued work item and calls the workload
WorkerStart ==
    /\ InState("PENDING") /= {}
    /\ CanRun
    /\ LET i == CHOOSE x \in InState("PENDING") :
                   \A y \in InState("PENDING") : x <= y
       IN futures' = [futures EXCEPT ![i].state = "RUNNING",
                                     ![i].wake = now + Call(workload, arg).sleep]
    /\ UNCHANGED << strategy, workload, arg, times_to_run, pc, results, exc,
                    alive, shutdown, idle, mainWake, now, skew, start, began, mt,
                    outstanding, outOfOrder >>

\* a future becomes finished while an earlier-submitted one is not
Overtakes(i) == \E j \in Submitted : j < i /\ futures[j].state /= "FINISHED"

\* the call ends in the worker.  A thread sets the future itself; a process
\* sends the outcome back to the parent, where it is still to be delivered
WorkerFinish(i) ==
    /\ i \in InState("RUNNING")
    /\ now >= futures[i].wake
    /\ LET c == Call(workload, arg) IN
         futures' = [futures EXCEPT
                       ![i].state = IF strategy = "processes"
                                    THEN "SENT" ELSE "FINISHED",
                       ![i].value = c.value,
                       ![i].exc = c.exc]
    /\ outOfOrder' = (outOfOrder \/ (strategy /= "processes" /\ Overtakes(i)))
    /\ idle' = IF strategy = "processes" THEN idle ELSE idle + 1
    /\ UNCHANGED << strategy, workload, arg, times_to_run, pc, results, exc,
                    alive, shutdown, mainWake, now, skew, start, began, mt,
                    outstanding >>

\* process pool: the parent's management thread sets the future from the
\* outcome a worker process sent
ManagerDeliver(i) ==
    /\ i \in InState("SENT")
    /\ futures' = [futures EXCEPT ![i].state = "FINISHED"]
    /\ outOfOrder' = (outOfOrder \/ Overtakes(i))
    /\ idle' = idle + 1
    /\ UNCHANGED << strategy, workload, arg, times_to_run, pc, results, exc,
                    alive, shutdown, mainWake, now, skew, start, began, mt,
                    outstanding >>

\* after shutdown an idle worker exits once the queue is drained
WorkerMayExitEarly == shutdown /\ alive > Busy
WorkerMayExit == shutdown /\ alive > Busy /\ InState("PENDING") = {}

WorkerExit ==
    /\ WorkerMayExit
    /\ alive' = alive - 1
    /\ UNCHANGED << strategy, workload, arg, times_to_run, pc, futures,
                    results, exc, shutdown, idle, mainWake, now, skew, start, began,
                    mt, outstanding, outOfOrder >>

\* --------------------------------------------------------------------- time
\* every step that costs no logical time
Instant ==
    \/ MtStart
    \/ MtFinish
    \/ SeqCall
    \/ SeqCallReturn
    \/ SeqReturn
    \/ Submit
    \/ SubmitDone
    \/ Collect
    \/ CollectDone
    \/ Exit
    \/ Join
    \/ WorkerStart
    \/ \E i \in Submitted : WorkerFinish(i)
    \/ \E i \in Submitted : ManagerDeliver(i)
    \/ WorkerExit

\* execution units blocked in time.sleep
Sleeping ==
    \/ pc = "seq_call" /\ mainWake > now
    \/ \E i \in InState("RUNNING") : futures[i].wake > now

\* logical time passes while somebody sleeps and nobody can run
Tick ==
    /\ Sleeping
    /\ ~ ENABLED Instant
    /\ now' = now + 1
    /\ UNCHANGED << strategy, workload, arg, times_to_run, pc, futures,
                    results, exc, alive, shutdown, idle, mainWake, skew, start,
                    began, mt, outstanding, outOfOrder >>

\* the system's wall clock is set (NTP step, administrator) while the harness
\* is measuring.  The wall clock is read only by measure_time's two
\* time.time() calls, so every step between them has the effect of one step
\* taken right before the second read
ClockAdjust ==
    /\ pc = "returned"
    /\ \E s \in -MaxSkew..MaxSkew :
         /\ s /= skew
         /\ skew' = s
    /\ UNCHANGED << strategy, workload, arg, times_to_run, pc, futures,
                    results, exc, alive, shutdown, idle, mainWake, now, start,
                    began, mt, outstanding, outOfOrder >>

Next ==
    \/ Instant
    \/ Tick
    \/ ClockAdjust

Spec == Init /\ [][Next]_vars

\* the runs progress is checked on: every runner, both workloads, every
\* repetition count and delay; for count_primes, whose argument changes no
\* step of a runner, the smallest and the largest N
FairInit == Init /\ (workload = "cpu" => arg \in {0, MaxN})

\* every task terminates, workers and the main thread are scheduled, and time
\* passes
FairSpec == FairInit /\ [][Next]_vars /\ WF_vars(Instant \/ Tick)

\* =================================================================== claims
Exited == pc \in {"returned", "raised", "done", "failed"}
Returned == pc \in {"returned", "done"}
Raised == pc \in {"raised", "failed"}
Values == [i \in 1..Len(results) |-> results[i].value]

\* C1: a runner that returns, returns exactly times_to_run results, each the
\* value one direct call of the workload with the same argument returns, in
\* every interleaving of the workers.
C1_ResultsEqualDirectCall ==
    Returned =>
        /\ Len(results) = times_to_run
        /\ Call(workload, arg).exc = ""
        /\ \A i \in 1..Len(results) :
             results[i].value = (IF workload = "cpu" THEN count_primes(arg)
                                 ELSE arg)

C1_Witness ==
    /\ pc = "done"
    /\ strategy = "processes"
    /\ workload = "cpu"
    /\ times_to_run >= 4
    /\ arg >= 10
    /\ outOfOrder

\* the primes, by definition: no divisor d with 1 < d < p
IsPrimeRef(p) == p >= 2 /\ \A d \in 2..(p - 1) : p % d /= 0
PrimesBelowRef(n) == Cardinality({p \in 2..(n - 1) : IsPrimeRef(p)})

\* C2: for n >= 2, count_primes(n) is the number of primes p with
\* 2 <= p < n; count_primes(2) = 0.
C2_CountPrimesIsPrimeCount ==
    (workload = "cpu" /\ arg >= 2) =>
        /\ \A i \in 1..Len(results) : results[i].value = PrimesBelowRef(arg)
        /\ \A i \in InState("FINISHED") : futures[i].value = PrimesBelowRef(arg)
        /\ \A i \in 1..Len(results) : arg = 2 => results[i].value = 0

C2_Witness ==
    /\ workload = "cpu"
    /\ arg >= 10
    /\ Len(results) >= 1
    /\ results[1].value = 4

\* C3: when control is back at the caller of a pool runner, by return or by
\* an exception of a task, the pool is shut down: no worker is alive and no
\* task is queued, running or in transit.
C3_PoolTornDownOnExit ==
    (strategy \in Pools /\ Exited) =>
        /\ shutdown
        /\ alive = 0
        /\ InState("PENDING") = {}
        /\ InState("RUNNING") = {}
        /\ InState("SENT") = {}

C3_Witness ==
    /\ pc = "failed"
    /\ strategy = "processes"
    /\ Len(futures) >= 4
    /\ alive = 0

\* C4: a task's exception reaches the runner's caller from the point where
\* that task's result is collected: no runner returns a list when a submitted
\* task failed, and the exception in flight is the one of the future being
\* collected (of the call being made, in the sequential runner).
C4_TaskExceptionPropagates ==
    /\ Returned => /\ \A i \in Submitted : futures[i].exc = ""
                   /\ Call(workload, arg).exc = ""
                   /\ exc = ""
    /\ Raised => /\ exc /= ""
                 /\ exc = Call(workload, arg).exc
    /\ (strategy \in Pools /\ exc /= "") =>
         /\ Len(results) + 1 \in Submitted
         /\ futures[Len(results) + 1].state = "FINISHED"
         /\ futures[Len(results) + 1].exc = exc

C4_Witness ==
    /\ pc = "raised"
    /\ strategy = "threads"
    /\ exc = "ValueError"
    /\ Len(results) = 0
    /\ Len(futures) = times_to_run

\* C5: a pool runner never returns its list while a submitted task is
\* pending or running, and with fair scheduling control always comes back to
\* the caller; it comes back with the list when no task raises.
C5_BlocksUntilAllResults ==
    /\ []((strategy \in Pools /\ Returned) =>
            (Len(futures) = times_to_run /\ Unfinished = {}))
    /\ (strategy \in Pools => <>(pc \in {"done", "failed"}))
    /\ ((strategy \in Pools /\ Call(workload, arg).exc = "") => <>(pc = "done"))

C5_Witness ==
    /\ strategy \in Pools
    /\ pc = "collect"
    /\ Len(futures) = times_to_run
    /\ Len(results) >= 1
    /\ Len(results) + 1 \in InState("RUNNING")

\* C6: delay 1, four repetitions: the thread pool returns [1, 1, 1, 1] after
\* 1 unit of logical time, the sequential runner after 4 = repetitions x
\* delay, and the sequential runner never has two waits at once.
C6_ThreadsOverlapSleeps ==
    /\ (pc = "done" /\ workload = "io" /\ arg = 1 /\ times_to_run = 4) =>
         /\ strategy = "threads" => (Values = <<1, 1, 1, 1>> /\ now - began = 1)
         /\ strategy = "sequential" => now - began = times_to_run * arg
    /\ strategy = "sequential" => InState("RUNNING") = {}

C6_Witness ==
    /\ pc = "done"
    /\ strategy = "threads"
    /\ workload = "io"
    /\ arg = 1
    /\ times_to_run = 4
    /\ now = 1

\* C7: the elapsed value measure_time returns is never negative.
C7_ElapsedNonNegative ==
    pc = "done" => mt.elapsed >= 0

\* C8: when the callable raises, measure_time gives no pair and the same
\* exception reaches its caller; when it returns, the pair's first component
\* is the callable's return value.
C8_MeasureTimeTransparent ==
    pc \in {"done", "failed"} =>
        IF exc /= ""
        THEN pc = "failed" /\ mt.kind = "raise" /\ mt.exc = exc
             /\ mt.result = << >>
        ELSE pc = "done" /\ mt.kind = "return" /\ mt.result = results

C8_Witness ==
    /\ pc = "failed"
    /\ strategy = "sequential"
    /\ mt.kind = "raise"
    /\ mt.exc = "ValueError"

\* C9: when collecting a result raises in a pool runner, the exception
\* reaches the runner's caller only after every submitted task has run to
\* completion: none is cancelled or left behind.
C9_RaiseWaitsForAllTasks ==
    (strategy \in Pools /\ Raised) =>
        /\ Len(futures) = times_to_run
        /\ \A i \in Submitted : futures[i].state = "FINISHED"

C9_Witness ==
    /\ strategy \in Pools
    /\ pc = "raised"
    /\ outstanding > 0

\* C10: the list a pool runner returns is in submission order: element i is
\* the result of the i-th submitted task, whatever the completion order.
C10_ResultsInSubmissionOrder ==
    (strategy \in Pools /\ Returned) =>
        \A i \in 1..Len(results) : results[i].task = i

C10_Witness ==
    /\ strategy \in Pools
    /\ pc = "returned"
    /\ outOfOrder
    /\ Len(results) >= 2

====
